---- MODULE Spec2Model ----
(***************************************************************************)
(* Account resolution and normalization of packages/rpc-graphql            *)
(* (src/resolvers/account.ts): transformParsedAccountData,                 *)
(* transformLoadedAccount, resolveAccount, resolveAccountData and          *)
(* Account.__resolveType.                                                  *)
(*                                                                         *)
(* A JavaScript object is a function from its own property names to        *)
(* values; scalar values are strings, with "undefined" and "null" standing *)
(* for the two JavaScript values of those names.  The raw loader result is *)
(* the one object of the model that is shared and mutated in place, so it  *)
(* is a variable (account); a value that holds a reference to its `data`   *)
(* object is written [kind |-> "rawData"] and read through the variable.   *)
(***************************************************************************)
EXTENDS Integers, FiniteSets, Sequences, TLC

VARIABLES
    account,    \* the raw loader result object, as the loader cache holds it
    raw0,       \* the raw loader result as the loader first produced it
    norm,       \* the last direct call of transformLoadedAccount
    disp,       \* the last call of Account.__resolveType
    inv         \* the resolver invocations of one GraphQL operation

vars == <<account, raw0, norm, disp, inv>>

Undefined == "undefined"
Null == "null"

\* JavaScript truthiness of a string-or-nullish value (`!address`, `fieldName ?`).
Truthy(v) == v \notin {Undefined, Null, ""}

\* obj[key] of a JavaScript object: undefined when the property is absent.
Get(obj, key) == IF key \in DOMAIN obj THEN obj[key] ELSE Undefined

\* obj[key] = value
Put(obj, key, value) ==
    [k \in DOMAIN obj \cup {key} |-> IF k = key THEN value ELSE obj[k]]

\* { ...a, ...b }
Spread(a, b) ==
    [k \in DOMAIN a \cup DOMAIN b |-> IF k \in DOMAIN b THEN b[k] ELSE a[k]]

\* obj without the property key
Without(obj, key) == [k \in DOMAIN obj \ {key} |-> obj[k]]

\* {}
EmptyObject == [k \in {} |-> Undefined]

IsArray(data) == data.shape = "array"

(***************************************************************************)
(* transformParsedAccountData: injects accountType, programId and          *)
(* programName into parsed.info IN PLACE and returns that same info        *)
(* object.  obj is the data object after the call, result the value        *)
(* returned.                                                               *)
(***************************************************************************)
transformParsedAccountData(parsedAccountData) ==
    LET accountType == parsedAccountData.parsed.type
        programName == parsedAccountData.program
        programId   == parsedAccountData.programId
        r1 == Put(parsedAccountData.parsed.info, "accountType", accountType)
        r2 == Put(r1, "programId", programId)
        result == Put(r2, "programName", programName)
    IN  [obj    |-> [parsedAccountData EXCEPT !.parsed.info = result],
         result |-> result]

\* encoding = 'jsonParsed' default of the destructured parameter
DefaultEncoding(encoding) == IF encoding = Undefined THEN "jsonParsed" ELSE encoding

\* The value of the `data` property of { ...account, ...data }.
SpreadData(payload) ==
    IF "data" \in DOMAIN payload
    THEN [kind |-> "string", value |-> payload["data"]]
    ELSE [kind |-> "rawData"]

\* Plausible slip: the fallback to base64 is missing.
transformLoadedAccountNoFallback(acct, address, encodingArg) ==
    LET encoding == DefaultEncoding(encodingArg)
        parsed == IF IsArray(acct.data) THEN [obj |-> acct.data, result |-> <<>>]
                  ELSE transformParsedAccountData(acct.data)
        data == IF IsArray(acct.data) THEN [data |-> acct.data.elems[1]]
                ELSE parsed.result
        responseEncoding == IF IsArray(acct.data) THEN encoding ELSE "jsonParsed"
        f1 == Put(acct.fields, "address", address)
        f2 == Put(f1, "encoding", responseEncoding)
        f3 == Put(f2, "ownerProgram", Get(acct.fields, "owner"))
    IN  [account |-> [fields |-> f3, data |-> parsed.obj],
         result  |-> [fields |-> Spread(f3, Without(data, "data")),
                      data   |-> SpreadData(data)]]

\* Plausible slip: `account.encoding ??= responseEncoding` keeps a value
\* an earlier call left on the shared object.
transformLoadedAccountKeepEncoding(acct, address, encodingArg) ==
    LET encoding == DefaultEncoding(encodingArg)
        parsed == IF IsArray(acct.data) THEN [obj |-> acct.data, result |-> <<>>]
                  ELSE transformParsedAccountData(acct.data)
        data == IF IsArray(acct.data) THEN [data |-> acct.data.elems[1]]
                ELSE parsed.result
        responseEncoding ==
            IF IsArray(acct.data)
            THEN (IF encoding = "jsonParsed" THEN "base64" ELSE encoding)
            ELSE "jsonParsed"
        f1 == Put(acct.fields, "address", address)
        f2 == IF Get(f1, "encoding") \in {Undefined, Null}
              THEN Put(f1, "encoding", responseEncoding) ELSE f1
        f3 == Put(f2, "ownerProgram", Get(acct.fields, "owner"))
    IN  [account |-> [fields |-> f3, data |-> parsed.obj],
         result  |-> [fields |-> Spread(f3, Without(data, "data")),
                      data   |-> SpreadData(data)]]

(***************************************************************************)
(* transformLoadedAccount({ account, address, encoding }).  account is the *)
(* raw object after the call (it is assigned to in place), result the      *)
(* fresh object { ...account, ...data } that is returned: fields holds its *)
(* properties other than `data`, data its `data` property.                 *)
(***************************************************************************)
transformLoadedAccount(acct, address, encodingArg) ==
    LET encoding == DefaultEncoding(encodingArg)
        parsed == IF IsArray(acct.data) THEN [obj |-> acct.data, result |-> <<>>]
                  ELSE transformParsedAccountData(acct.data)
        data == IF IsArray(acct.data) THEN [data |-> acct.data.elems[1]]
                ELSE parsed.result
        responseEncoding ==
            IF IsArray(acct.data)
            THEN (IF encoding = "jsonParsed" THEN "base64" ELSE encoding)
            ELSE "jsonParsed"
        f1 == Put(acct.fields, "address", address)
        f2 == Put(f1, "encoding", responseEncoding)
        f3 == Put(f2, "ownerProgram", Get(acct.fields, "owner"))
    IN  [account |-> [fields |-> f3, data |-> parsed.obj],
         result  |-> [fields |-> Spread(f3, Without(data, "data")),
                      data   |-> SpreadData(data)]]

\* Plausible slip: the jsonParsed guard around the chain is missing.
resolveTypeNoEncodingGuard(a) ==
    IF a.programName = "nonce" THEN "NonceAccount"
    ELSE IF a.accountType = "mint" /\ a.programName = "spl-token" THEN "MintAccount"
    ELSE IF a.accountType = "account" /\ a.programName = "spl-token" THEN "TokenAccount"
    ELSE IF a.programName = "stake" THEN "StakeAccount"
    ELSE IF a.accountType = "vote" /\ a.programName = "vote" THEN "VoteAccount"
    ELSE IF a.accountType = "lookupTable" /\ a.programName = "address-lookup-table"
         THEN "LookupTableAccount"
    ELSE "GenericAccount"

\* Account.__resolveType(account)
resolveType(a) ==
    IF a.encoding = "jsonParsed"
    THEN IF a.programName = "nonce" THEN "NonceAccount"
         ELSE IF a.accountType = "mint" /\ a.programName = "spl-token" THEN "MintAccount"
         ELSE IF a.accountType = "account" /\ a.programName = "spl-token" THEN "TokenAccount"
         ELSE IF a.programName = "stake" THEN "StakeAccount"
         ELSE IF a.accountType = "vote" /\ a.programName = "vote" THEN "VoteAccount"
         ELSE IF a.accountType = "lookupTable" /\ a.programName = "address-lookup-table"
              THEN "LookupTableAccount"
         ELSE "GenericAccount"
    ELSE "GenericAccount"


(***************************************************************************)
(* Inputs.                                                                 *)
(***************************************************************************)
MaxNormalizeCalls == 2   \* direct calls of transformLoadedAccount on one raw object
NumInvocations == 2      \* resolver invocations of one GraphQL operation

\* Addresses a caller supplies (parent[fieldName], args.address, parent.address).
Addresses == {"AddrA", "AddrB"}

\* args.encoding
Encodings == {Undefined, "base58", "base64", "base64+zstd", "jsonParsed"}

\* Scalar properties of a raw loader result.
BaseFields == [owner |-> "OwnerProgram", lamports |-> "1000"]
TopFields == {BaseFields, Put(BaseFields, "address", "EmbeddedTop")}

\* Property names the parsed `info` object may carry, each with one value.
InfoKeys == {"mint", "address", "encoding", "accountType", "data"}
InfoValue(k) ==
    CASE k = "mint" -> "MintAddr"
      [] k = "address" -> "EmbeddedInfo"
      [] k = "encoding" -> "base64"
      [] k = "accountType" -> "stale"
      [] OTHER -> "infoData"
InfoObjects == {[k \in S |-> InfoValue(k)] : S \in SUBSET InfoKeys}

ParsedTypes == {"mint", "vote", "delegated"}
Programs == {"spl-token", "stake"}
ProgramIdOf(program) ==
    IF program = "stake" THEN "Stake11111111111111111111111111111111111"
    ELSE "TokenkegQfeZyiNwAJbNbGKPFXCWuBvf9Ss623VQ5DA"

EncodedData ==
    {[shape |-> "array", elems |-> <<"AAAA", label>>] : label \in {"base64", "base58"}}
ParsedData ==
    {[shape |-> "object", parsed |-> [info |-> i, type |-> t],
      program |-> p, programId |-> ProgramIdOf(p)] :
        i \in InfoObjects, t \in ParsedTypes, p \in Programs}
RawAccounts ==
    {[fields |-> f, data |-> d] : f \in TopFields, d \in EncodedData \cup ParsedData}

\* A few raw results for the resolver invocations: one encoded, two parsed.
LoaderAccounts ==
    {[fields |-> BaseFields, data |-> [shape |-> "array", elems |-> <<"AAAA", "base64">>]],
     [fields |-> BaseFields,
      data |-> [shape |-> "object", parsed |-> [info |-> [mint |-> "MintAddr"], type |-> "account"],
                program |-> "spl-token", programId |-> ProgramIdOf("spl-token")]],
     [fields |-> BaseFields,
      data |-> [shape |-> "object",
                parsed |-> [info |-> [data |-> "infoData", address |-> "EmbeddedInfo"],
                            type |-> "delegated"],
                program |-> "stake", programId |-> ProgramIdOf("stake")]]}

TypeNames ==
    {"GenericAccount", "MintAccount", "TokenAccount", "StakeAccount", "VoteAccount",
     "NonceAccount", "LookupTableAccount"}

DispatchEncodings == Encodings
DispatchProgramNames ==
    {Undefined, "nonce", "spl-token", "stake", "vote", "address-lookup-table", "config"}
DispatchAccountTypes ==
    {Undefined, "mint", "account", "vote", "lookupTable", "delegated", "initialized"}
DispatchInputs ==
    [encoding : DispatchEncodings, programName : DispatchProgramNames,
     accountType : DispatchAccountTypes]

NormIdle == [pc |-> "idle", calls |-> 0]
DispIdle == [pc |-> "idle"]
InvIdle == [i \in 1..NumInvocations |-> [pc |-> "idle"]]

\* What __resolveType reads of an object.
DispatchView(obj) ==
    [encoding |-> Get(obj, "encoding"), programName |-> Get(obj, "programName"),
     accountType |-> Get(obj, "accountType")]

(***************************************************************************)
(* Direct calls of the normalizer on one raw object, and the type dispatch *)
(* of the record it returns.                                               *)
(***************************************************************************)
InitNormalize ==
    /\ account \in RawAccounts
    /\ raw0 = account
    /\ norm = NormIdle
    /\ disp = DispIdle
    /\ inv = InvIdle

Normalize(address, encoding) ==
    /\ norm.calls < MaxNormalizeCalls
    /\ LET t == transformLoadedAccount(account, address, encoding)
       IN  /\ account' = t.account
           /\ norm' = [pc |-> "done", calls |-> norm.calls + 1, before |-> account,
                       address |-> address, encoding |-> encoding, result |-> t.result]
    /\ disp' = DispIdle
    /\ UNCHANGED <<raw0, inv>>

DispatchNormalized ==
    /\ norm.pc = "done"
    /\ disp.pc = "idle"
    /\ disp' = [pc |-> "done", input |-> DispatchView(norm.result.fields),
                typeName |-> resolveType(DispatchView(norm.result.fields))]
    /\ UNCHANGED <<account, raw0, norm, inv>>

NextNormalize ==
    \/ \E address \in Addresses, encoding \in Encodings : Normalize(address, encoding)
    \/ DispatchNormalized

SpecNormalize == InitNormalize /\ [][NextNormalize]_vars

(***************************************************************************)
(* Account.__resolveType on any object the engine may hand it.             *)
(***************************************************************************)
InitDispatch ==
    /\ account \in LoaderAccounts
    /\ raw0 = account
    /\ norm = NormIdle
    /\ disp \in {[pc |-> "called", input |-> a] : a \in DispatchInputs}
    /\ inv = InvIdle

ResolveType ==
    /\ disp.pc = "called"
    /\ disp' = [pc |-> "done", input |-> disp.input, typeName |-> resolveType(disp.input)]
    /\ UNCHANGED <<account, raw0, norm, inv>>

NextDispatch == ResolveType

SpecDispatch == InitDispatch /\ [][NextDispatch]_vars


(***************************************************************************)
(* Resolver bindings.  One invocation is inv[i]:                           *)
(*   pc         "idle", "awaiting" (suspended at `await load(...)`),       *)
(*              "done" (the promise it returned is fulfilled with ret) or  *)
(*              "rejected" (it is rejected with ret)                       *)
(*   kind       "account" (resolveAccount) or "data" (resolveAccountData)  *)
(*   address    the address it resolved from parent / args                 *)
(*   inspected  how often it consulted onlyPresentFieldRequested           *)
(*   requests   the requests it passed to context.loaders.account.load     *)
(*   settled    how the loader settled its load                            *)
(*   transforms how often it called transformLoadedAccount                 *)
(***************************************************************************)

\* The field-presence inspector of ./resolve-info: true iff the execution
\* info is there and fieldName is the only field of the selection.
onlyPresentFieldRequested(fieldName, info) ==
    info.present /\ info.selection = {fieldName}

NoInfo == [present |-> FALSE, selection |-> {}]
Infos ==
    {NoInfo,
     [present |-> TRUE, selection |-> {"address"}],
     [present |-> TRUE, selection |-> {"address", "lamports"}]}

\* args.encoding of the resolver invocations
ResolverEncodings == {Undefined, "base58", "jsonParsed"}

RetPending == [kind |-> "pending"]
RetNull == [kind |-> "null"]
RetStub(address) == [kind |-> "stub", address |-> address]
RetError(reason) == [kind |-> "error", reason |-> reason]

Fulfilled(value) == [status |-> "fulfilled", value |-> value]
Rejected(reason) == [status |-> "rejected", value |-> reason]
Unsettled == [status |-> "pending", value |-> Undefined]

\* Plausible slip: the loader is called before the inspector is asked.
resolveAccountCallAlwaysLoads(fieldName, parent, args, info) ==
    LET address == IF Truthy(fieldName) THEN Get(parent, fieldName) ELSE Get(args, "address")
    IN  IF ~Truthy(address)
        THEN [pc |-> "done", address |-> address, inspected |-> 0,
              requests |-> <<>>, ret |-> RetNull]
        ELSE [pc |-> "awaiting", address |-> address, inspected |-> 0,
              requests |-> <<Put(args, "address", address)>>, ret |-> RetPending]

\* Plausible slip: the inspector is asked before the address is tested.
resolveAccountCallInspectsFirst(fieldName, parent, args, info) ==
    LET address == IF Truthy(fieldName) THEN Get(parent, fieldName) ELSE Get(args, "address")
    IN  IF onlyPresentFieldRequested("address", info)
        THEN [pc |-> "done", address |-> address, inspected |-> 1,
              requests |-> <<>>, ret |-> RetStub(address)]
        ELSE IF ~Truthy(address)
        THEN [pc |-> "done", address |-> address, inspected |-> 1,
              requests |-> <<>>, ret |-> RetNull]
        ELSE [pc |-> "awaiting", address |-> address, inspected |-> 1,
              requests |-> <<Put(args, "address", address)>>, ret |-> RetPending]

\* resolveAccount(fieldName)(parent, args, context, info), up to its return
\* or its suspension at `await context.loaders.account.load(...)`.
resolveAccountCall(fieldName, parent, args, info) ==
    LET address == IF Truthy(fieldName) THEN Get(parent, fieldName) ELSE Get(args, "address")
    IN  IF ~Truthy(address)
        THEN [pc |-> "done", address |-> address, inspected |-> 0,
              requests |-> <<>>, ret |-> RetNull]
        ELSE IF onlyPresentFieldRequested("address", info)
        THEN [pc |-> "done", address |-> address, inspected |-> 1,
              requests |-> <<>>, ret |-> RetStub(address)]
        ELSE [pc |-> "awaiting", address |-> address, inspected |-> 1,
              requests |-> <<Put(args, "address", address)>>, ret |-> RetPending]

\* resolveAccountData()(parent, args, context), up to its suspension.
resolveAccountDataCall(parent, args) ==
    [pc |-> "awaiting", address |-> Get(parent, "address"), inspected |-> 0,
     requests |-> <<Put(args, "address", Get(parent, "address"))>>, ret |-> RetPending]

\* Plausible slip: a failed load is caught and answered as "not found".
awaitLoadCatches(settled) ==
    IF settled.status = "rejected"
    THEN [threw |-> FALSE, value |-> Null]
    ELSE [threw |-> FALSE, value |-> settled.value]

\* `await promise`: the value of a fulfilled promise; the reason of a
\* rejected one is thrown, and nothing in either resolver catches it.
awaitLoad(settled) ==
    IF settled.status = "rejected"
    THEN [threw |-> TRUE, value |-> settled.value]
    ELSE [threw |-> FALSE, value |-> settled.value]

\* Plausible slip: "not found" answers null from resolveAccount, too.
resolveAccountResumeNullForMissing(acct, address, encoding, settled) ==
    LET awaited == awaitLoad(settled)
    IN  IF awaited.threw
        THEN [pc |-> "rejected", account |-> acct, transforms |-> 0,
              ret |-> RetError(awaited.value)]
        ELSE IF awaited.value = Null
        THEN [pc |-> "done", account |-> acct, transforms |-> 0, ret |-> RetNull]
        ELSE LET t == transformLoadedAccount(acct, address, encoding)
             IN  [pc |-> "done", account |-> t.account, transforms |-> 1,
                  ret |-> [kind |-> "record", fields |-> t.result.fields,
                           data |-> t.result.data]]

\* resolveAccount from the point its load settles (lines 76-77).  acct is
\* the object the loader resolved to when it resolved to an account.
resolveAccountResume(acct, address, encoding, settled) ==
    LET awaited == awaitLoad(settled)
    IN  IF awaited.threw
        THEN [pc |-> "rejected", account |-> acct, transforms |-> 0,
              ret |-> RetError(awaited.value)]
        ELSE IF awaited.value = Null
        THEN [pc |-> "done", account |-> acct, transforms |-> 0, ret |-> RetStub(address)]
        ELSE LET t == transformLoadedAccount(acct, address, encoding)
             IN  [pc |-> "done", account |-> t.account, transforms |-> 1,
                  ret |-> [kind |-> "record", fields |-> t.result.fields,
                           data |-> t.result.data]]

\* resolveAccountData from the point its load settles (lines 87-90).
resolveAccountDataResume(acct, address, encoding, settled) ==
    LET awaited == awaitLoad(settled)
    IN  IF awaited.threw
        THEN [pc |-> "rejected", account |-> acct, transforms |-> 0,
              ret |-> RetError(awaited.value)]
        ELSE IF awaited.value = Null
        THEN [pc |-> "done", account |-> acct, transforms |-> 0, ret |-> RetNull]
        ELSE LET t == transformLoadedAccount(acct, address, encoding)
             IN  [pc |-> "done", account |-> t.account, transforms |-> 1,
                  ret |-> [kind |-> "data", data |-> t.result.data]]

Resume(kind, acct, address, encoding, settled) ==
    IF kind = "account" THEN resolveAccountResume(acct, address, encoding, settled)
    ELSE resolveAccountDataResume(acct, address, encoding, settled)

Init ==
    /\ account \in LoaderAccounts
    /\ raw0 = account
    /\ norm = NormIdle
    /\ disp = DispIdle
    /\ inv = InvIdle

\* How the engine calls a resolver built by resolveAccount(fieldName): the
\* unbound resolver (the root `account` query) takes the address from
\* args.address, a field-bound one from parent[fieldName].  The last two
\* carry an address in the place the resolver must not read.
BoundCalls ==
    {[fieldName |-> "ownerProgram", parent |-> [ownerProgram |-> pv], address |-> Undefined] :
        pv \in {Null, "AddrA"}}
    \cup {[fieldName |-> "ownerProgram", parent |-> EmptyObject, address |-> av] :
        av \in {Undefined, "AddrA"}}
UnboundCalls ==
    {[fieldName |-> Undefined, parent |-> EmptyObject, address |-> av] :
        av \in {Undefined, Null, "AddrB"}}
    \cup {[fieldName |-> Undefined, parent |-> [ownerProgram |-> "AddrA"], address |-> Undefined]}
AccountCalls == BoundCalls \cup UnboundCalls

\* The engine invokes a resolver built by resolveAccount(fieldName).
CallResolveAccount(i) ==
    /\ inv[i].pc = "idle"
    /\ \E call \in AccountCalls, encoding \in ResolverEncodings, info \in Infos :
          LET args == IF call.address = Undefined THEN [encoding |-> encoding]
                      ELSE [encoding |-> encoding, address |-> call.address]
              c == resolveAccountCall(call.fieldName, call.parent, args, info)
          IN  inv' = [inv EXCEPT ![i] =
                        [pc |-> c.pc, kind |-> "account", address |-> c.address,
                         only |-> onlyPresentFieldRequested("address", info),
                         inspected |-> c.inspected, requests |-> c.requests,
                         settled |-> Unsettled, transforms |-> 0, ret |-> c.ret]]
    /\ UNCHANGED <<account, raw0, norm, disp>>

\* The engine invokes the resolver built by resolveAccountData().
CallResolveAccountData(i) ==
    /\ inv[i].pc = "idle"
    /\ \E address \in Addresses, encoding \in ResolverEncodings :
          LET c == resolveAccountDataCall([address |-> address], [encoding |-> encoding])
          IN  inv' = [inv EXCEPT ![i] =
                        [pc |-> c.pc, kind |-> "data", address |-> c.address,
                         only |-> FALSE,
                         inspected |-> c.inspected, requests |-> c.requests,
                         settled |-> Unsettled, transforms |-> 0, ret |-> c.ret]]
    /\ UNCHANGED <<account, raw0, norm, disp>>

\* The load of invocation i settles and the invocation runs to its end.
Settle(i, settled) ==
    /\ inv[i].pc = "awaiting"
    /\ LET r == Resume(inv[i].kind, account, inv[i].address,
                       Get(inv[i].requests[1], "encoding"), settled)
       IN  /\ account' = r.account
           /\ inv' = [inv EXCEPT ![i].pc = r.pc, ![i].settled = settled,
                                 ![i].transforms = r.transforms, ![i].ret = r.ret]
    /\ UNCHANGED <<raw0, norm, disp>>

\* The loader resolves to the cached raw result object.
LoadResolvesAccount(i) == Settle(i, Fulfilled("account"))

\* The loader resolves to null: the address has no account.
LoadResolvesNull(i) == Settle(i, Fulfilled(Null))

\* The loader rejects: transport or protocol failure.
LoadRejects(i) == Settle(i, Rejected("TransportFailure"))

Next ==
    \E i \in 1..NumInvocations :
        \/ CallResolveAccount(i)
        \/ CallResolveAccountData(i)
        \/ LoadResolvesAccount(i)
        \/ LoadResolvesNull(i)
        \/ LoadRejects(i)

Spec == Init /\ [][Next]_vars


(***************************************************************************)
(* Properties.                                                             *)
(***************************************************************************)

\* What a reader of a returned value sees: a reference to the shared raw
\* `data` object is read through the object acct.
Deref(d, acct) ==
    IF d.kind = "rawData" THEN [kind |-> "object", value |-> acct.data] ELSE d
RetView(ret, acct) ==
    CASE ret.kind = "record" ->
            [kind |-> "record", fields |-> ret.fields, data |-> Deref(ret.data, acct)]
      [] ret.kind = "data" -> [kind |-> "data", data |-> Deref(ret.data, acct)]
      [] OTHER -> ret

\* C1: Account.__resolveType answers one of the 7 type names, GenericAccount
\* whenever encoding is not 'jsonParsed', and otherwise the first rule that
\* matches in the order nonce, mint+spl-token, account+spl-token, stake,
\* vote+vote, lookupTable+address-lookup-table, else GenericAccount; so
\* programName 'stake' with accountType 'vote' is a StakeAccount.
C1_Dispatch ==
    disp.pc = "done" =>
        LET a == disp.input
            t == disp.typeName
            parsed == a.encoding = "jsonParsed"
            r1 == a.programName = "nonce"
            r2 == a.accountType = "mint" /\ a.programName = "spl-token"
            r3 == a.accountType = "account" /\ a.programName = "spl-token"
            r4 == a.programName = "stake"
            r5 == a.accountType = "vote" /\ a.programName = "vote"
            r6 == a.accountType = "lookupTable" /\ a.programName = "address-lookup-table"
        IN  /\ t \in TypeNames
            /\ ~parsed => t = "GenericAccount"
            /\ parsed /\ r1 => t = "NonceAccount"
            /\ parsed /\ ~r1 /\ r2 => t = "MintAccount"
            /\ parsed /\ ~r1 /\ ~r2 /\ r3 => t = "TokenAccount"
            /\ parsed /\ ~r1 /\ ~r2 /\ ~r3 /\ r4 => t = "StakeAccount"
            /\ parsed /\ ~r1 /\ ~r2 /\ ~r3 /\ ~r4 /\ r5 => t = "VoteAccount"
            /\ parsed /\ ~r1 /\ ~r2 /\ ~r3 /\ ~r4 /\ ~r5 /\ r6 => t = "LookupTableAccount"
            /\ parsed /\ ~r1 /\ ~r2 /\ ~r3 /\ ~r4 /\ ~r5 /\ ~r6 => t = "GenericAccount"
            /\ parsed /\ a.programName = "stake" /\ a.accountType = "vote"
                    => t = "StakeAccount"

C1_Witness ==
    /\ disp.pc = "done"
    /\ disp.input.encoding = "jsonParsed"
    /\ disp.input.programName = "stake"
    /\ disp.input.accountType = "vote"
    /\ disp.typeName = "StakeAccount"

\* C2: for sequence-shaped data the returned record's encoding is 'base64'
\* when 'jsonParsed' was requested, the requested encoding when base58,
\* base64 or base64+zstd was requested, and never 'jsonParsed'.
C2_EncodedEncoding ==
    (norm.pc = "done" /\ IsArray(norm.before.data)) =>
        /\ norm.encoding = "jsonParsed" => norm.result.fields["encoding"] = "base64"
        /\ norm.encoding \in {"base58", "base64", "base64+zstd"}
                => norm.result.fields["encoding"] = norm.encoding
        /\ norm.result.fields["encoding"] # "jsonParsed"

C2_Witness ==
    /\ norm.pc = "done"
    /\ IsArray(norm.before.data)
    /\ norm.encoding = "jsonParsed"
    /\ norm.result.fields["encoding"] = "base64"

\* C3: for object-shaped data, whatever keys info carries, the returned
\* record has encoding 'jsonParsed' and carries accountType = parsed.type,
\* programId and programName = program of the parsed data.
C3_ParsedRecord ==
    (norm.pc = "done" /\ ~IsArray(norm.before.data)) =>
        /\ Get(norm.result.fields, "encoding") = "jsonParsed"
        /\ Get(norm.result.fields, "accountType") = norm.before.data.parsed.type
        /\ Get(norm.result.fields, "programId") = norm.before.data.programId
        /\ Get(norm.result.fields, "programName") = norm.before.data.program

\* C4: the address of the returned record is the caller-supplied address,
\* whatever address the raw payload embeds.
C4_AddressAuthoritative ==
    norm.pc = "done" => Get(norm.result.fields, "address") = norm.address

\* C9: transformLoadedAccount leaves the raw loader result passed to it
\* unchanged, top-level fields and nested info alike.
C9_RawUnchanged ==
    norm.pc = "done" => account = norm.before

\* C5: with an address at hand and the inspector reporting `address` as the
\* only field requested, resolveAccount returns { address } and makes no
\* load call.
C5_AddressOnlyShortCircuit ==
    \A i \in 1..NumInvocations :
        (inv[i].pc # "idle" /\ inv[i].kind = "account"
            /\ Truthy(inv[i].address) /\ inv[i].only) =>
            /\ inv[i].pc = "done"
            /\ inv[i].ret = RetStub(inv[i].address)
            /\ Len(inv[i].requests) = 0
            /\ inv[i].transforms = 0

C5_Witness ==
    \E i \in 1..NumInvocations :
        /\ inv[i].pc = "done" /\ inv[i].kind = "account"
        /\ Truthy(inv[i].address) /\ inv[i].only
        /\ inv[i].ret = RetStub(inv[i].address)

\* C6: when the loader resolves to null, resolveAccount resolves to
\* { address }, resolveAccountData resolves to null, and neither rejects
\* nor normalizes.
C6_NotFound ==
    \A i \in 1..NumInvocations :
        (inv[i].pc # "idle" /\ inv[i].settled = Fulfilled(Null)) =>
            /\ inv[i].pc = "done"
            /\ inv[i].transforms = 0
            /\ inv[i].kind = "account" => inv[i].ret = RetStub(inv[i].address)
            /\ inv[i].kind = "data" => inv[i].ret = RetNull

C6_Witness ==
    \E i, j \in 1..NumInvocations :
        /\ inv[i].pc = "done" /\ inv[i].kind = "account"
        /\ inv[i].settled = Fulfilled(Null) /\ inv[i].ret.kind = "stub"
        /\ inv[j].pc = "done" /\ inv[j].kind = "data"
        /\ inv[j].settled = Fulfilled(Null) /\ inv[j].ret = RetNull

\* C7: when the load rejects, the invocation that awaited it ends rejected
\* with that failure, never fulfilled with null, a stub or a record.
C7_RejectionPropagates ==
    \A i \in 1..NumInvocations :
        (inv[i].pc # "idle" /\ inv[i].settled.status = "rejected") =>
            /\ inv[i].pc = "rejected"
            /\ inv[i].ret = RetError(inv[i].settled.value)
            /\ inv[i].transforms = 0

C7_Witness ==
    \E i, j \in 1..NumInvocations :
        /\ inv[i].pc = "rejected" /\ inv[i].kind = "account"
        /\ inv[j].pc = "rejected" /\ inv[j].kind = "data"
        /\ inv[i].ret = RetError("TransportFailure")

\* C8: with no address at hand resolveAccount returns null without having
\* consulted the inspector and without a load call.
C8_MissingReference ==
    \A i \in 1..NumInvocations :
        (inv[i].pc # "idle" /\ inv[i].kind = "account" /\ ~Truthy(inv[i].address)) =>
            /\ inv[i].pc = "done"
            /\ inv[i].ret = RetNull
            /\ inv[i].inspected = 0
            /\ Len(inv[i].requests) = 0

C8_Witness ==
    \E i \in 1..NumInvocations :
        /\ inv[i].pc = "done" /\ inv[i].kind = "account"
        /\ ~Truthy(inv[i].address) /\ inv[i].only
        /\ inv[i].ret = RetNull

\* C10: every invocation that was handed the shared cached raw result
\* returns what it would return run alone on a fresh copy of that raw
\* result with its own address and encoding, whatever the interleaving;
\* two invocations of one resolver with equal address and encoding return
\* equal values.
C10_RedundantResolutionSafe ==
    /\ \A i \in 1..NumInvocations :
        (inv[i].pc = "done" /\ inv[i].settled = Fulfilled("account")) =>
            LET alone == Resume(inv[i].kind, raw0, inv[i].address,
                                Get(inv[i].requests[1], "encoding"), Fulfilled("account"))
            IN  RetView(inv[i].ret, account) = RetView(alone.ret, alone.account)
    /\ \A i, j \in 1..NumInvocations :
        (/\ inv[i].pc = "done" /\ inv[i].settled = Fulfilled("account")
         /\ inv[j].pc = "done" /\ inv[j].settled = Fulfilled("account")
         /\ inv[i].kind = inv[j].kind /\ inv[i].address = inv[j].address
         /\ inv[i].requests = inv[j].requests) =>
            RetView(inv[i].ret, account) = RetView(inv[j].ret, account)

C10_Witness ==
    \E i, j \in 1..NumInvocations :
        /\ i # j
        /\ inv[i].pc = "done" /\ inv[i].settled = Fulfilled("account")
        /\ inv[j].pc = "done" /\ inv[j].settled = Fulfilled("account")
        /\ inv[i].address # inv[j].address
        /\ Get(inv[i].requests[1], "encoding") = "jsonParsed"
        /\ Get(inv[j].requests[1], "encoding") = "base58"
        /\ account # raw0

====
